---- MODULE Spec2Model ----
(***************************************************************************)
(* The named executor registry of                                          *)
(* .devcontainer/init/functions/concurrency/executor.py:                   *)
(* get_optimal_workers, get_executor, parallel_map and shutdown_executors, *)
(* called from several threads, together with the worker pools             *)
(* (concurrent.futures executors) the registry hands out.                  *)
(***************************************************************************)
EXTENDS Integers, Sequences, FiniteSets, TLC

(* ------------------------------ bounds -------------------------------- *)

\* number of calling threads
NumThreads == 2
\* number of calls made by all threads together; a parallel_map call counts
\* twice, for itself and for the get_executor call it makes
MaxCalls == 4
\* longest items list passed to parallel_map
MaxItems == 2
\* largest explicit workers argument
MaxWorkers == 1
\* largest core count os.cpu_count() reports
MaxCores == 1
\* largest core count get_optimal_workers is called on by itself
MaxCpuCount == 8
\* largest chunk_size argument
MaxChunk == 2

(* ----------------------------- constants ------------------------------ *)

\* cpu_count = os.cpu_count() or 4
DefaultCpuCount == 4
\* return 4  # Reasonable fallback
FallbackWorkers == 4

Threads == 1..NumThreads
\* the threads that run batches; every thread uses the registry
Mappers == {1}
NoThread == 0
NoHandle == 0
\* os.cpu_count() returning None
NoCores == 0
\* os.cpu_count() raising
CpuCountRaises == -1
\* what os.cpu_count() does when get_optimal_workers is called by itself
Detections == (1..MaxCpuCount) \cup {NoCores, CpuCountRaises}
\* task_type arguments callers pass; "io" is the default
TaskTypes == {"cpu", "io", "CPU", "IO", "auto", "thread"}
CoreCounts == 1..MaxCores
\* the keys _executors can hold, in the order they are first registered
NameOrder == <<"a", "b">>
Names == {NameOrder[i] : i \in 1..Len(NameOrder)}
\* the name arguments the callers of get_executor and parallel_map pass
CallNames == {"a"}
\* executor_type arguments callers pass
KindInputs == {"thread", "Process", "bogus"}
\* chunk_size arguments callers pass; 1 is the default
ChunkSizes == 1..MaxChunk
\* func arguments: square never raises, square_nonzero raises on item 0
Funcs == {"square", "square_nonzero"}

(* --------------------------- pure functions --------------------------- *)

\* str.lower() on the executor_type and task_type arguments
Lower(s) ==
    CASE s = "Process" -> "process"
      [] s = "Thread" -> "thread"
      [] s = "CPU" -> "cpu"
      [] s = "IO" -> "io"
      [] OTHER -> s

\* the larger argument not taken
Second(a, b) == b

Max(a, b) == IF a >= b THEN a ELSE b

\* the fallback returned whenever no core count is detected
get_optimal_workers_or_fallback(task_type, cpu) ==
    IF cpu \in {NoCores, CpuCountRaises} THEN FallbackWorkers
    ELSE CASE Lower(task_type) = "cpu" -> Max(1, cpu - 1)
           [] Lower(task_type) = "io" -> cpu * 2
           [] OTHER -> cpu

\* get_optimal_workers(task_type) on a platform where os.cpu_count() reports
\* cpu cores, returns None or raises (lines 27-40)
get_optimal_workers(task_type, cpu) ==
    IF cpu = CpuCountRaises THEN FallbackWorkers
    ELSE LET cpu_count == IF cpu = NoCores THEN DefaultCpuCount ELSE cpu
         IN  CASE Lower(task_type) = "cpu" -> Max(1, cpu_count - 1)
               [] Lower(task_type) = "io" -> cpu_count * 2
               [] OTHER -> cpu_count

\* items = list(range(n))
Items(n) == [i \in 1..n |-> i - 1]

\* whether func raises on item x
Raises(func, x) == func = "square_nonzero" /\ x = 0

\* the value func returns on item x
Apply(func, x) == x * x

\* all orders in which a finite set can be listed
RECURSIVE Orders(_)
Orders(S) ==
    IF S = {} THEN {<<>>}
    ELSE UNION {{<<x>> \o o : o \in Orders(S \ {x})} : x \in S}

Range(s) == {s[i] : i \in 1..Len(s)}

(* ------------------------------- state -------------------------------- *)

VARIABLES
    executors,   \* _executors: name -> handle, NoHandle when the name is absent
    lock,        \* _executor_lock: the thread holding it, or NoThread
    pool,        \* every executor object created so far, by handle
    queue,       \* per handle, the work items submitted and not yet started
    tasks,       \* the futures in flight, by <<thread, batch, index>>
    ncalls,      \* calls started so far
    pc,          \* per thread, where it is
    call,        \* per thread, the arguments of its current or last call
    frame,       \* per mapper, the local variables of its parallel_map call
    result,      \* per thread, how the call it is leaving ended
    hist,        \* per mapper, what its previous calls left behind: the
                 \* batches it submitted, the handle its last call timed
                 \* out on
    lastGot,     \* per name, the handle get_executor returned last and its
                 \* worker count then, none once a handle of that name is
                 \* shut down; the handle shutdown_executors took out of the
                 \* registry since
    atexit,      \* the callbacks registered with atexit.register, in order
    stage,       \* how far the interpreter is: importing the package,
                 \* running, exiting, exited
    active_profiler, \* DebugCore.active_profiler: a profiler or NoProfiler
    profilers,   \* every Profiler object created so far
    future       \* per thread, the future of its execute_with_timeout call:
                 \* what it runs and how far the worker is with it

\* the interpreter's exit machinery
interp == <<atexit, stage>>

\* the DebugCore object and its profilers
debug == <<active_profiler, profilers>>

vars == <<executors, lock, pool, queue, tasks, ncalls, pc, call, frame,
          result, hist, lastGot, atexit, stage, active_profiler, profilers,
          future>>

Handles == 1..Len(pool)

NoCall == [op |-> "none", name |-> "a", kind |-> "thread", workers |-> 0,
           func |-> "square", n |-> 0, timed |-> FALSE, task_type |-> "io",
           chunk_size |-> 1, mode |-> "none"]

NoGot == [h |-> NoHandle, workers |-> 0, before |-> NoHandle]

NoFrame == [executor |-> NoHandle, nsub |-> 0, results |-> <<>>,
            errors |-> <<>>, pending |-> {}, waiter |-> <<>>, snapshot |-> {},
            completed |-> <<>>, unfinished |-> 0]

NoResult == [status |-> "none", cause |-> "none", value |-> <<>>,
             handle |-> NoHandle, pending_count |-> 0, prev |-> NoGot,
             found |-> NoHandle, created |-> FALSE, count |-> 0,
             visited |-> <<>>, failed |-> {}, message |-> <<>>,
             logged |-> <<>>, cpu_count |-> NoCores, workers |-> 0,
             flag |-> FALSE, profiler |-> 0, was_active |-> 0, starts |-> 0,
             stops |-> 0]

NoHist == [batch |-> 0, after |-> NoHandle]

\* self.active_profiler = None
NoProfiler == 0

\* a Profiler object that is garbage
NoObject == [mode |-> "none", owner |-> "none", is_running |-> FALSE]

\* the objects created last that are garbage are forgotten
RECURSIVE Trim(_)
Trim(ps) ==
    IF ps # <<>> /\ ps[Len(ps)] = NoObject
    THEN Trim(SubSeq(ps, 1, Len(ps) - 1)) ELSE ps

\* a profiler that neither DebugCore nor a caller refers to any more is
\* garbage and nothing of it remains; one that start_profiler started and
\* that is still running is kept on record
Unreferenced(ps, a, res) ==
    Trim([i \in DOMAIN ps |->
            IF \/ i = a
               \/ \E t \in DOMAIN res : res[t].profiler = i
               \/ ps[i].is_running /\ ps[i].owner = "core"
            THEN ps[i] ELSE NoObject])

\* atexit.register(shutdown_executors), run three times while the package is
\* imported: __init__.py line 40 imports orchestration/python_optimizer.py
\* (line 18), line 41 orchestration/github_provisioner.py (line 16), and
\* line 46 registers the callback itself
Register(handlers, callback) == Append(handlers, callback)

\* the callbacks registered once the package is imported
Imported ==
    Register(Register(Register(<<>>, "shutdown_executors"),
                      "shutdown_executors"), "shutdown_executors")

\* no execute_with_timeout call is under way
NoFuture == [func |-> "square", arg |-> 0, state |-> "none"]

\* the package is imported, no DebugCore call has been made and no
\* execute_with_timeout call
Elsewhere ==
    /\ atexit = Imported
    /\ stage = "running"
    /\ active_profiler = NoProfiler
    /\ profilers = <<>>
    /\ future = [t \in Threads |-> NoFuture]

Init ==
    /\ Elsewhere
    /\ executors = [n \in Names |-> NoHandle]
    /\ lock = NoThread
    /\ pool = <<>>
    /\ queue = <<>>
    /\ tasks = <<>>
    /\ ncalls = 0
    /\ pc = [t \in Threads |-> "idle"]
    /\ call = [t \in Threads |-> NoCall]
    /\ frame = [t \in Mappers |-> NoFrame]
    /\ result = [t \in Threads |-> NoResult]
    /\ hist = [t \in Mappers |-> NoHist]
    /\ lastGot = [n \in Names |-> NoGot]

(* ------------------------- executor objects --------------------------- *)

\* concurrent.futures.ThreadPoolExecutor / ProcessPoolExecutor(max_workers)
NewExecutor(name, kind, worker_count) ==
    [name |-> name, kind |-> kind, workers |-> worker_count, shutdown |-> FALSE]

\* executor.shutdown(wait=False): the flag is set, queued items stay queued
Shutdown(p, h) == [p EXCEPT ![h].shutdown = TRUE]

\* ThreadPoolExecutor keeps its flag in _shutdown, ProcessPoolExecutor in
\* _shutdown_thread, so hasattr(executor, '_shutdown') holds for threads only
HasShutdownAttr(h) == pool[h].kind = "thread"

\* no registered executor taken as usable
NeverUsable(h) == FALSE

\* not hasattr(executor, '_shutdown') or not getattr(executor, '_shutdown')
IsUsable(h) == ~HasShutdownAttr(h) \/ ~pool[h].shutdown

\* an executor that is shut down, is registered under no name and has no
\* future left is referenced by nothing any more: only that it is shut down
\* remains of it
Released(p, tk, ex) ==
    [h \in DOMAIN p |->
        IF /\ p[h].shutdown
           /\ \A n \in Names : ex[n] # h
           /\ \A id \in DOMAIN tk : tk[id].h # h
        THEN [p[h] EXCEPT !.kind = "none", !.workers = 0]
        ELSE p[h]]

\* the handles the registry created that have not been shut down
Live(h) == h \in Handles /\ ~pool[h].shutdown

\* the work items of handle h a worker is running
Running(h) == {id \in DOMAIN tasks : tasks[id].h = h /\ tasks[id].state = "running"}

(* ----------------------------- call entry ----------------------------- *)

\* the calls an operation counts for
Calls(op) == IF op = "parallel_map" THEN 2 ELSE 1

\* a call that ended is in the state with its outcome once: its caller takes
\* the outcome before any other step is taken
Observed == \A t \in Threads : pc[t] # "done"

\* the threads that keep nothing between their calls are interchangeable
\* while idle: of these, the one with the lowest number makes the next call
FirstIdle(t) ==
    t \in Mappers \/ \A u \in Threads \ Mappers : u < t => pc[u] # "idle"

\* thread t is free to call op
CanEnter(t, op) ==
    /\ stage = "running"
    /\ Observed
    /\ pc[t] = "idle"
    /\ FirstIdle(t)
    /\ ncalls + Calls(op) <= MaxCalls

\* thread t starts the call c
Enter(t, c) ==
    /\ CanEnter(t, c.op)
    /\ ncalls' = ncalls + Calls(c.op)

\* the futures of the batch thread t submitted in its current call
Batch(t) == {id \in DOMAIN tasks : id[1] = t /\ id[2] = hist[t].batch}

\* a future taken as done once its work item has been started
DoneOrRunning(id) == tasks[id].state \in {"ok", "err", "running"}

\* future.done()
Done(id) == tasks[id].state \in {"ok", "err"}

\* the caller has the outcome of its call and goes on: the locals of the
\* call are gone, and the thread remembers the handle the call timed out on
Leave(t) ==
    /\ pc[t] = "done"
    /\ pc' = [pc EXCEPT ![t] = "idle"]
    /\ call' = [call EXCEPT ![t] = NoCall]
    /\ frame' = [m \in Mappers |-> IF m = t THEN NoFrame ELSE frame[m]]
    /\ result' = [result EXCEPT ![t] = NoResult]
    /\ hist' = [m \in Mappers |->
            IF m = t
            THEN [after |-> IF result[t].cause = "timeout" THEN result[t].handle
                            ELSE NoHandle,
                  batch |-> IF Batch(t) # {} THEN hist[t].batch + 1
                            ELSE hist[t].batch]
            ELSE hist[m]]
    /\ profilers' = Unreferenced(profilers, active_profiler, result')
    /\ future' = [future EXCEPT ![t] = NoFuture]
    /\ UNCHANGED <<interp, active_profiler>>
    /\ UNCHANGED <<executors, lock, pool, queue, tasks, ncalls,
                   lastGot>>

(* ---------------------------- get_executor ---------------------------- *)

\* the lock taken without regard to its holder
LockIgnored == TRUE

\* with _executor_lock: the lock can be taken
LockFree == lock = NoThread

\* the lock kept by the thread of parallel_map until its call has ended
HeldForBatch(t, c) == IF c.op = "parallel_map" THEN t ELSE NoThread

\* lines 57-94: leaving the with block, by return or by raise, releases the
\* lock thread t took for its call c
Unlocked(t, c) == NoThread

\* an executor reused only when its size is the size asked for
ReusableSameWorkers(c) ==
    /\ executors[c.name] # NoHandle
    /\ IsUsable(executors[c.name])
    /\ c.workers \in {0, pool[executors[c.name]].workers}

\* an executor reused only when its kind is the kind asked for
ReusableSameKind(c) ==
    /\ executors[c.name] # NoHandle
    /\ IsUsable(executors[c.name])
    /\ Lower(c.kind) = pool[executors[c.name]].kind

\* lines 59-65: name in _executors and the registered executor is not shut
\* down, for the call c
Reusable(c) ==
    /\ executors[c.name] # NoHandle
    /\ IsUsable(executors[c.name])

\* the workers argument not looked at
WorkerCountAuto(workers, task_type, cpu) ==
    get_optimal_workers(task_type, cpu)

\* worker_count = workers if workers > 0 else get_optimal_workers(...),
\* os.cpu_count() reporting cpu
WorkerCount(workers, task_type, cpu) ==
    IF workers > 0 THEN workers ELSE get_optimal_workers(task_type, cpu)

\* lines 79 and 85: get_optimal_workers, and with it os.cpu_count(), is
\* called only when workers is not positive; the core counts it can read
Detected(workers) == IF workers > 0 THEN {NoCores} ELSE CoreCounts

\* get_executor, called with c, hands handle h of the pools p to its caller:
\* the caller of get_executor itself, or parallel_map, which goes on to
\* submit and does not use executor_type and workers after line 126; cpu is
\* the core count get_optimal_workers read for the call, NoCores when it was
\* not called
ReturnExecutor(t, c, h, p, cpu) ==
    /\ lastGot' = [lastGot EXCEPT ![c.name] = [h |-> h, workers |-> p[h].workers,
                                                before |-> NoHandle]]
    /\ IF c.op = "get_executor"
       THEN /\ pc' = [pc EXCEPT ![t] = "done"]
            /\ result' = [result EXCEPT ![t].status = "returned", ![t].handle = h,
                                        ![t].prev = lastGot[c.name],
                                        ![t].found = executors[c.name],
                                        ![t].created = h \notin Handles,
                                        ![t].cpu_count = cpu]
            /\ frame' = frame
            /\ pool' = p
            /\ call' = [call EXCEPT ![t] = c]
       ELSE /\ pc' = [pc EXCEPT ![t] = "pm_submit"]
            /\ frame' = [frame EXCEPT ![t].executor = h]
            /\ result' = [result EXCEPT ![t].handle = h, ![t].found = NoHandle]
            /\ pool' = p
            /\ call' = [call EXCEPT ![t] = [c EXCEPT !.kind = NoCall.kind,
                                                      !.workers = NoCall.workers]]

\* lines 57-68: take the lock and return the registered executor if it is
\* usable, otherwise go on to create one, knowing what the name holds;
\* executor_type and workers have not been read yet
Lookup(t, c) ==
    /\ LockFree
    /\ IF Reusable(c)
       THEN /\ ReturnExecutor(t, c, executors[c.name], pool, NoCores)
            /\ lock' = Unlocked(t, c)
       ELSE /\ lock' = t
            /\ pc' = [pc EXCEPT ![t] = "ge_create"]
            /\ call' = [call EXCEPT ![t] = [c EXCEPT !.kind = NoCall.kind,
                                                      !.workers = NoCall.workers]]
            /\ result' = [result EXCEPT ![t].found = executors[c.name]]
            /\ UNCHANGED <<pool, frame, lastGot>>

\* get_executor(name, executor_type, workers): the call and its lookup; the
\* executor_type and workers of a call that returns the registered executor
\* are never read and are drawn here, as what the caller passed
get_executor(t) ==
    /\ CanEnter(t, "get_executor")
    /\ LockFree
    /\ \E name \in CallNames :
        LET c == [NoCall EXCEPT !.op = "get_executor", !.name = name]
        IN  /\ Enter(t, c)
            /\ IF Reusable(c)
               THEN \E kind \in KindInputs, workers \in 0..MaxWorkers :
                        Lookup(t, [c EXCEPT !.kind = kind, !.workers = workers])
               ELSE Lookup(t, c)
            /\ UNCHANGED <<interp, debug, future>>
            /\ UNCHANGED <<executors, queue, tasks, hist>>

\* raise ConcurrencyError(f"Invalid executor type: {executor_type}")
RaiseInvalidKind(t, c) ==
    /\ pc' = [pc EXCEPT ![t] = "done"]
    /\ result' = [result EXCEPT ![t].status = "ConcurrencyError",
                                ![t].cause = "invalid_kind",
                                ![t].found = NoHandle]
    /\ call' = [call EXCEPT ![t] = c]
    /\ UNCHANGED <<frame, lastGot>>

\* lines 70-94: shut the stale executor down, create and register the new
\* one or raise, release the lock; executor_type and workers are read here
\* for the first time, and the values the caller passed are drawn here
GECreate(t) ==
    /\ Observed
    /\ pc[t] = "ge_create"
    /\ \E executor_type \in KindInputs, workers \in 0..MaxWorkers :
        LET c == [call[t] EXCEPT !.kind = executor_type, !.workers = workers]
            name == c.name
            stale == result[t].found
            cleaned == IF stale # NoHandle THEN Shutdown(pool, stale) ELSE pool
            kind == Lower(c.kind)
            new == Len(pool) + 1
        IN  /\ lock' = Unlocked(t, c)
            /\ IF kind = "process"
               THEN /\ executors' = [executors EXCEPT ![name] = new]
                    /\ queue' = Append(queue, <<>>)
                    /\ \E cpu \in Detected(c.workers) :
                          ReturnExecutor(t, c, new,
                            Released(Append(cleaned, NewExecutor(name, kind,
                                        WorkerCount(c.workers, "cpu", cpu))),
                                     tasks, executors'), cpu)
               ELSE IF kind = "thread"
               THEN /\ executors' = [executors EXCEPT ![name] = new]
                    /\ queue' = Append(queue, <<>>)
                    /\ \E cpu \in Detected(c.workers) :
                          ReturnExecutor(t, c, new,
                            Released(Append(cleaned, NewExecutor(name, kind,
                                        WorkerCount(c.workers, "io", cpu))),
                                     tasks, executors'), cpu)
               ELSE /\ pool' = cleaned
                    /\ RaiseInvalidKind(t, c)
                    /\ UNCHANGED <<executors, queue>>
    /\ UNCHANGED <<interp, debug, future>>
    /\ UNCHANGED <<tasks, ncalls, hist>>

(* ------------------------- shutdown_executors ------------------------- *)

\* lines 188-189: take the lock
shutdown_executors(t) ==
    /\ Enter(t, [NoCall EXCEPT !.op = "shutdown_executors"])
    /\ LockFree
    /\ lock' = t
    /\ call' = [call EXCEPT ![t] = [NoCall EXCEPT !.op = "shutdown_executors"]]
    /\ pc' = [pc EXCEPT ![t] = "se_loop"]
    /\ UNCHANGED <<interp, debug, future>>
    /\ UNCHANGED <<executors, pool, queue, tasks, frame, result, hist, lastGot>>

\* the names an executor was ever created for
EverRegistered == {n \in Names : \E h \in Handles : pool[h].name = n}

\* list(_executors.items()): the names registered, under the lock
Registered == {n \in Names : executors[n] # NoHandle}

\* no listed executor shut down
ShutdownNone(p, names) == p

\* lines 190-195: executor.shutdown(wait=False) for every listed executor
ShutdownAll(p, names) ==
    [h \in DOMAIN p |->
        IF \E n \in names : executors[n] = h
        THEN [p[h] EXCEPT !.shutdown = TRUE] ELSE p[h]]

\* the registry left as it is
Kept == executors

\* line 196: _executors.clear()
Cleared == [n \in Names |-> NoHandle]

\* lines 190-196: shut the listed executors down without waiting, clear the
\* registry, release the lock, return
SEFinish(t) ==
    /\ Observed
    /\ pc[t] = "se_loop"
    /\ pool' = Released(ShutdownAll(pool, Registered), tasks, Cleared)
    /\ lastGot' = [n \in Names |->
            IF n \in Registered THEN [NoGot EXCEPT !.before = executors[n]]
            ELSE lastGot[n]]
    /\ executors' = Cleared
    /\ lock' = NoThread
    /\ pc' = [pc EXCEPT ![t] = "done"]
    /\ result' = [result EXCEPT ![t].status = "returned",
                                ![t].count = Cardinality(Registered)]
    /\ UNCHANGED <<interp, debug, future>>
    /\ UNCHANGED <<queue, tasks, ncalls, call, frame, hist>>

\* the loop left by the first executor.shutdown that raises
ShutdownUntilFailure(p, order, failed) ==
    ShutdownAll(p, {order[i] : i \in {j \in 1..Len(order) :
                                        \A k \in 1..j : order[k] \notin failed}})

\* lines 190-195, executor.shutdown raising for the executors of the names
\* in failed: the exception is caught and logged and the loop goes on
ShutdownEach(p, order, failed) == ShutdownAll(p, Range(order) \ failed)

\* lines 190-196 when executor.shutdown may raise: the executors are visited
\* in the order of the dict, a call that raises has set the flag of its
\* executor or has not, and the registry is cleared after the loop
SEFinishFailing(t) ==
    /\ Observed
    /\ pc[t] = "se_loop"
    /\ \E order \in Orders(Registered), failed \in SUBSET Registered :
        \E flagged \in SUBSET failed :
            /\ pool' = Released(ShutdownAll(ShutdownEach(pool, order, failed),
                                            flagged), tasks, Cleared)
            /\ result' = [result EXCEPT ![t].status = "returned",
                                        ![t].count = Cardinality(Registered),
                                        ![t].visited = order,
                                        ![t].failed = failed]
    /\ lastGot' = [n \in Names |->
            IF n \in Registered THEN [NoGot EXCEPT !.before = executors[n]]
            ELSE lastGot[n]]
    /\ executors' = Cleared
    /\ lock' = NoThread
    /\ pc' = [pc EXCEPT ![t] = "done"]
    /\ UNCHANGED <<interp, debug, future>>
    /\ UNCHANGED <<queue, tasks, ncalls, call, frame, hist>>

\* a thread holding the handle get_executor returns for a name shuts the
\* executor down itself: executor.shutdown(wait=False)
executor_shutdown(t) ==
    /\ CanEnter(t, "executor.shutdown")
    /\ \E h \in Handles :
        LET c == [NoCall EXCEPT !.op = "executor.shutdown", !.name = pool[h].name]
        IN  /\ executors[pool[h].name] = h
            /\ ~pool[h].shutdown
            /\ Enter(t, c)
            /\ call' = [call EXCEPT ![t] = c]
            /\ pc' = [pc EXCEPT ![t] = "done"]
            /\ result' = [result EXCEPT ![t].status = "returned", ![t].handle = h]
            /\ pool' = Shutdown(pool, h)
            /\ lastGot' = [lastGot EXCEPT ![pool[h].name] = NoGot]
            /\ UNCHANGED <<interp, debug, future>>
            /\ UNCHANGED <<executors, lock, queue, tasks, frame, hist>>

(* ---------------------------- worker pools ---------------------------- *)

\* thread t is inside as_completed with its waiter installed on the futures
Collecting(t) == pc[t] = "pm_loop"

\* a worker of pool h takes the oldest queued work item and calls func
TaskStart(h) ==
    /\ Observed
    /\ queue[h] # <<>>
    /\ Cardinality(Running(h)) < pool[h].workers
    /\ queue' = [queue EXCEPT ![h] = Tail(@)]
    /\ tasks' = [tasks EXCEPT ![Head(queue[h])].state =
                    IF @ = "cancelled" THEN @ ELSE "running"]
    /\ UNCHANGED <<interp, debug, future>>
    /\ UNCHANGED <<executors, lock, pool, ncalls, pc, call, frame,
                   result, hist, lastGot>>

\* func returns or raises: the future is set and the waiter installed by
\* as_completed, if any, is told; a future nobody holds any more is gone
TaskFinish(id) ==
    LET t == id[1]
        mine == /\ id[2] = hist[t].batch
                /\ pc[t] \in {"pm_submit", "pm_collect", "pm_loop", "pm_handler"}
    IN  /\ Observed
        /\ tasks[id].state = "running"
        /\ tasks' = IF mine
                    THEN [tasks EXCEPT ![id].state =
                            IF Raises(call[t].func, Items(call[t].n)[id[3]])
                            THEN "err" ELSE "ok"]
                    ELSE [d \in (DOMAIN tasks) \ {id} |-> tasks[d]]
        /\ frame' = [frame EXCEPT
                ![t].waiter = IF mine /\ Collecting(t) THEN Append(@, id[3]) ELSE @,
                ![t].completed = IF mine /\ pc[t] # "pm_handler"
                                 THEN Append(@, id[3]) ELSE @]
        /\ pool' = Released(pool, tasks', executors)
        /\ UNCHANGED <<interp, debug, future>>
        /\ UNCHANGED <<executors, lock, queue, ncalls, pc, call, result, hist,
                       lastGot>>

(* ---------------------------- parallel_map ---------------------------- *)

\* the test for the empty list left out
EmptyInputIgnored(c) == FALSE

\* lines 121-122: items_list = list(items); if not items_list
EmptyInput(c) == Items(c.n) = <<>>

\* lines 120-126, for a caller that passes one of the given chunk sizes: an
\* empty items list returns [] at once, otherwise the executor is looked up;
\* executor_type and workers are read by get_executor when it creates an
\* executor and nowhere else
ParallelMap(t, sizes) ==
    /\ CanEnter(t, "parallel_map")
    /\ \E name \in CallNames, func \in Funcs, n \in 0..MaxItems,
          timed \in BOOLEAN, chunk_size \in sizes :
        LET c == [NoCall EXCEPT !.op = "parallel_map", !.name = name,
                                !.func = func, !.n = n, !.timed = timed,
                                !.chunk_size = chunk_size]
        IN  /\ Enter(t, c)
            /\ IF EmptyInput(c)
               THEN /\ pc' = [pc EXCEPT ![t] = "done"]
                    /\ call' = [call EXCEPT ![t] = c]
                    /\ result' = [result EXCEPT ![t].status = "returned"]
                    /\ UNCHANGED <<lock, pool, frame, lastGot>>
               ELSE Lookup(t, c)
            /\ UNCHANGED <<interp, debug, future>>
            /\ UNCHANGED <<executors, queue, tasks, hist>>

\* parallel_map(func, items, executor_name, executor_type, workers, timeout)
\* with chunk_size left at its default
parallel_map(t) == ParallelMap(t, {NoCall.chunk_size})

\* parallel_map(..., chunk_size=k)
parallel_map_chunk_size(t) == ParallelMap(t, ChunkSizes)

\* the futures not yet started cancelled by the handler
AbandonCancel(t, tk) ==
    [id \in {d \in DOMAIN tk : d \in Batch(t) => ~Done(d)} |->
        IF id \in Batch(t)
        THEN [tk[id] EXCEPT !.atTimeout = tk[id].state,
                            !.state = IF @ = "queued" THEN "cancelled" ELSE @]
        ELSE tk[id]]

\* lines 143-147: the handler of concurrent.futures.TimeoutError leaves the
\* futures as they are; the finished ones are not referenced any more
Abandon(t, tk) ==
    [id \in {d \in DOMAIN tk : d \in Batch(t) => ~Done(d)} |->
        IF id \in Batch(t) THEN [tk[id] EXCEPT !.atTimeout = tk[id].state]
        ELSE tk[id]]

\* line 132 raising: the futures submitted before stay with the executor,
\* the finished ones are not referenced any more
Strand(t, tk) == [id \in {d \in DOMAIN tk : d \in Batch(t) => ~Done(d)} |-> tk[id]]

\* executor.submit(func, item): refused once the executor is shut down
SubmitRefused(h) == pool[h].shutdown

\* line 132: executor.submit(func, item) for the next item; the RuntimeError
\* of a shut down executor leaves parallel_map uncaught
PMSubmit(t) ==
    LET h == frame[t].executor
        i == frame[t].nsub + 1
        id == <<t, hist[t].batch, i>>
    IN  /\ Observed
        /\ pc[t] = "pm_submit"
        /\ IF SubmitRefused(h)
           THEN /\ pc' = [pc EXCEPT ![t] = "done"]
                /\ result' = [result EXCEPT ![t].status = "RuntimeError",
                                            ![t].cause = "submit_after_shutdown"]
                /\ tasks' = Strand(t, tasks)
                /\ UNCHANGED <<queue, frame>>
           ELSE /\ tasks' = tasks @@ (id :> [h |-> h, state |-> "queued",
                                             atTimeout |-> "none"])
                /\ queue' = [queue EXCEPT ![h] = Append(@, id)]
                /\ frame' = [frame EXCEPT ![t].nsub = i]
                /\ pc' = [pc EXCEPT ![t] = IF i = call[t].n THEN "pm_collect"
                                           ELSE "pm_submit"]
                /\ UNCHANGED result
        /\ pool' = Released(pool, tasks', executors)
        /\ UNCHANGED <<interp, debug, future>>
        /\ UNCHANGED <<executors, lock, ncalls, call, hist, lastGot>>

\* the loop body appending to results whether or not the future raised
CollectKeepFailed(t, f, i) ==
    IF tasks[<<t, hist[t].batch, i>>].state = "err"
    THEN [f EXCEPT !.errors = Append(@, Items(call[t].n)[i]),
                   !.results = Append(@, Apply(call[t].func, Items(call[t].n)[i])),
                   !.pending = @ \ {i}]
    ELSE [f EXCEPT !.results = Append(@, Apply(call[t].func, Items(call[t].n)[i])),
                   !.pending = @ \ {i}]

\* lines 136-142: the loop body for the future as_completed yields, on the
\* locals f of parallel_map
Collect(t, f, i) ==
    IF tasks[<<t, hist[t].batch, i>>].state = "err"
    THEN [f EXCEPT !.errors = Append(@, Items(call[t].n)[i]),
                   !.pending = @ \ {i}]
    ELSE [f EXCEPT !.results = Append(@, Apply(call[t].func, Items(call[t].n)[i])),
                   !.pending = @ \ {i}]

\* as_completed yields the listed futures one after the other
RECURSIVE CollectAll(_, _, _)
CollectAll(t, f, listed) ==
    IF listed = <<>> THEN f
    ELSE CollectAll(t, Collect(t, f, Head(listed)), Tail(listed))

Reverse(s) == [i \in 1..Len(s) |-> s[Len(s) + 1 - i]]

\* the futures that finished since the last wait, newest first
FinishedFuturesNewestFirst(t) == Reverse(frame[t].waiter)

\* as_completed reverses waiter.finished_futures and pops from its end: the
\* futures that finished since the last wait, oldest first
FinishedFutures(t) == frame[t].waiter

\* the results collected so far handed back on the timeout path
TimeoutValuePartial(t) == frame[t].results

\* what parallel_map hands back on the timeout path: it raises
TimeoutValue(t) == <<>>

\* the executor shut down on the timeout path
ExecutorShutDownAfterTimeout(t) ==
    Released(Shutdown(pool, frame[t].executor), tasks', executors)

\* lines 148-150: the finally clause leaves the executor as it is
ExecutorAfterTimeout(t) == Released(pool, tasks', executors)

\* the executor shut down once the last result is in, as on leaving a
\* `with executor:` block
ExecutorShutDownAfterReturn(t) ==
    IF pc'[t] = "done"
    THEN Released(Shutdown(pool, frame[t].executor), tasks', executors)
    ELSE Released(pool, tasks', executors)

\* lines 135-155: collecting and returning leave the executor as it is
ExecutorAfterReturn(t) == Released(pool, tasks', executors)

\* the futures of a batch that returned are not referenced any more
Forget(t, tk) == [id \in (DOMAIN tk) \ Batch(t) |-> tk[id]]

\* the deadline of as_completed (timeout + time.monotonic() at its entry)
\* can have passed at any check made after that
DeadlinePassed(t) == call[t].timed

\* after the listed futures: the loop ends when no future is pending and
\* parallel_map returns its results (lines 152-155), otherwise as_completed
\* goes on to wait
Continue(t, f) ==
    IF f.pending = {}
    THEN /\ pc' = [pc EXCEPT ![t] = "done"]
         /\ result' = [result EXCEPT ![t].status = "returned",
                                     ![t].value = f.results]
         /\ tasks' = Forget(t, tasks)
         /\ frame' = [frame EXCEPT ![t] = f]
    ELSE /\ pc' = [pc EXCEPT ![t] = "pm_loop"]
         /\ frame' = [frame EXCEPT ![t] = f]
         /\ UNCHANGED <<result, tasks>>

\* line 135, entry of as_completed: the futures already finished are
\* yielded in the order of a set, the waiter is installed on the others
PMAsCompleted(t) ==
    LET finished == {id[3] : id \in {d \in Batch(t) : Done(d)}}
    IN  /\ Observed
        /\ pc[t] = "pm_collect"
        /\ \E listed \in Orders(finished) :
              Continue(t, CollectAll(t,
                  [frame[t] EXCEPT !.snapshot = finished,
                                   !.pending = 1..call[t].n], listed))
        /\ pool' = ExecutorAfterReturn(t)
        /\ UNCHANGED <<interp, debug, future>>
        /\ UNCHANGED <<executors, lock, queue, ncalls, call, hist, lastGot>>

\* waiter.event.wait(wait_timeout) returns with futures finished meanwhile:
\* they are yielded in finishing order
PMWait(t) ==
    /\ Observed
    /\ pc[t] = "pm_loop"
    /\ frame[t].waiter # <<>>
    /\ Continue(t, CollectAll(t, [frame[t] EXCEPT !.waiter = <<>>],
                              FinishedFutures(t)))
    /\ pool' = ExecutorAfterReturn(t)
    /\ UNCHANGED <<interp, debug, future>>
    /\ UNCHANGED <<executors, lock, queue, ncalls, call, hist, lastGot>>

\* the futures as_completed has not yielded yet
NotYielded(t) == Cardinality(frame[t].pending)

\* line 144: pending_count = sum(1 for f in futures if not f.done())
PendingCount(t) == Cardinality({id \in Batch(t) : ~Done(id)})

\* lines 145-146: logger.error(f"Parallel execution timed out after {timeout}
\* seconds with {pending_count} pending tasks")
LogMessage(pending_count) == <<"timed out", pending_count>>

\* line 147: ConcurrencyError(f"Execution timed out after {timeout} seconds")
ErrorMessage(pending_count) == <<"timed out">>

\* futures are pending and the deadline has passed: as_completed removes
\* its waiter and raises TimeoutError (line 135), and what it had seen of
\* the order of completion is gone with it; the futures not done at that
\* moment are counted here for reference, the code does not
PMTimeout(t) ==
    /\ Observed
    /\ pc[t] = "pm_loop"
    /\ DeadlinePassed(t)
    /\ pc' = [pc EXCEPT ![t] = "pm_handler"]
    /\ frame' = [frame EXCEPT ![t].unfinished = PendingCount(t),
                              ![t].waiter = <<>>,
                              ![t].snapshot = {},
                              ![t].completed = <<>>]
    /\ UNCHANGED <<interp, debug, future>>
    /\ UNCHANGED <<executors, lock, pool, queue, tasks, ncalls, call, result,
                   hist, lastGot>>

\* lines 143-150: the handler counts the futures not done now, logs the
\* count and raises ConcurrencyError in place of the TimeoutError; the
\* executor is left alone
PMHandler(t) ==
    /\ Observed
    /\ pc[t] = "pm_handler"
    /\ pc' = [pc EXCEPT ![t] = "done"]
    /\ result' = [result EXCEPT
            ![t].status = "ConcurrencyError",
            ![t].cause = "timeout",
            ![t].value = TimeoutValue(t),
            ![t].pending_count = PendingCount(t),
            ![t].logged = LogMessage(PendingCount(t)),
            ![t].message = ErrorMessage(PendingCount(t))]
    /\ tasks' = Abandon(t, tasks)
    /\ pool' = ExecutorAfterTimeout(t)
    /\ UNCHANGED <<interp, debug, future>>
    /\ UNCHANGED <<executors, lock, queue, ncalls, call, frame, hist,
                   lastGot>>

(* --------------------------- specification ---------------------------- *)

Next ==
    \/ \E t \in Threads : Leave(t)
    \/ \E t \in Threads : get_executor(t)
    \/ \E t \in Threads : GECreate(t)
    \/ \E t \in Threads : shutdown_executors(t)
    \/ \E t \in Threads : SEFinish(t)
    \/ \E t \in Threads : executor_shutdown(t)
    \/ \E t \in Mappers : parallel_map(t)
    \/ \E t \in Mappers : PMSubmit(t)
    \/ \E t \in Mappers : PMAsCompleted(t)
    \/ \E t \in Mappers : PMWait(t)
    \/ \E t \in Mappers : PMTimeout(t)
    \/ \E t \in Mappers : PMHandler(t)
    \/ \E h \in Handles : TaskStart(h)
    \/ \E id \in DOMAIN tasks : TaskFinish(id)

Spec == Init /\ [][Next]_vars

\* the threads and the workers keep running: a caller that can take its
\* next step takes it, a worker with a queued item and a free slot starts
\* it, and every invocation of func ends; no deadline has to pass and no
\* new call has to be made
Fairness ==
    /\ WF_vars(\E t \in Threads : Leave(t))
    /\ WF_vars(\E t \in Threads : GECreate(t))
    /\ WF_vars(\E t \in Threads : SEFinish(t))
    /\ WF_vars(\E t \in Mappers : PMSubmit(t))
    /\ WF_vars(\E t \in Mappers : PMAsCompleted(t))
    /\ WF_vars(\E t \in Mappers : PMWait(t))
    /\ WF_vars(\E t \in Mappers : PMHandler(t))
    /\ WF_vars(\E h \in Handles : TaskStart(h))
    /\ WF_vars(\E id \in DOMAIN tasks : TaskFinish(id))

FairSpec == Spec /\ Fairness

(* ------------------ get_optimal_workers: SizeSpec --------------------- *)

\* lines 18-40: a thread calls get_optimal_workers(task_type) and
\* os.cpu_count() reports a core count, returns None or raises
GetOptimalWorkers(t) ==
    /\ \E task_type \in TaskTypes, cpu \in Detections :
        LET c == [NoCall EXCEPT !.op = "get_optimal_workers",
                                !.task_type = task_type]
        IN  /\ Enter(t, c)
            /\ call' = [call EXCEPT ![t] = c]
            /\ result' = [result EXCEPT
                    ![t].status = "returned",
                    ![t].cpu_count = cpu,
                    ![t].workers = get_optimal_workers(task_type, cpu)]
    /\ pc' = [pc EXCEPT ![t] = "done"]
    /\ UNCHANGED <<interp, debug, future>>
    /\ UNCHANGED <<executors, lock, pool, queue, tasks, frame, hist, lastGot>>

SizeNext ==
    \/ \E t \in Threads : Leave(t)
    \/ \E t \in Threads : GetOptimalWorkers(t)

SizeSpec == Init /\ [][SizeNext]_vars

(* ------------------- shutdowns that raise: FaultSpec ------------------ *)

\* what a registered executor can be when shutdown_executors is called
PoolStates == {[kind |-> k, shutdown |-> s] : k \in {"thread", "process"},
                                              s \in BOOLEAN}

\* the registry after get_executor calls for some of the names, the handles
\* numbered in the order of creation, some shut down by their holders
FaultInit ==
    \E reg \in SUBSET Names : \E made \in [reg -> PoolStates] :
        LET order == SelectSeq(NameOrder, LAMBDA n : n \in reg)
            handle(n) == CHOOSE i \in 1..Len(order) : order[i] = n
        IN  /\ executors = [n \in Names |-> IF n \in reg THEN handle(n)
                                             ELSE NoHandle]
            /\ pool = [i \in 1..Len(order) |->
                    [NewExecutor(order[i], made[order[i]].kind, 1)
                        EXCEPT !.shutdown = made[order[i]].shutdown]]
            /\ queue = [i \in 1..Len(order) |-> <<>>]
            /\ lastGot = [n \in Names |->
                    IF n \in reg /\ ~made[n].shutdown
                    THEN [NoGot EXCEPT !.h = handle(n), !.workers = 1]
                    ELSE NoGot]
            /\ Elsewhere
            /\ lock = NoThread
            /\ tasks = <<>>
            /\ ncalls = 0
            /\ pc = [t \in Threads |-> "idle"]
            /\ call = [t \in Threads |-> NoCall]
            /\ frame = [t \in Mappers |-> NoFrame]
            /\ result = [t \in Threads |-> NoResult]
            /\ hist = [t \in Mappers |-> NoHist]

FaultNext ==
    \/ \E t \in Threads : Leave(t)
    \/ \E t \in Threads : shutdown_executors(t)
    \/ \E t \in Threads : SEFinishFailing(t)

FaultSpec == FaultInit /\ [][FaultNext]_vars

(* ------------------- batches with chunk_size: ChunkSpec --------------- *)

ChunkNext ==
    \/ \E t \in Threads : Leave(t)
    \/ \E t \in Threads : GECreate(t)
    \/ \E t \in Mappers : parallel_map_chunk_size(t)
    \/ \E t \in Mappers : PMSubmit(t)
    \/ \E t \in Mappers : PMAsCompleted(t)
    \/ \E t \in Mappers : PMWait(t)
    \/ \E t \in Mappers : PMTimeout(t)
    \/ \E t \in Mappers : PMHandler(t)
    \/ \E h \in Handles : TaskStart(h)
    \/ \E id \in DOMAIN tasks : TaskFinish(id)

ChunkSpec == Init /\ [][ChunkNext]_vars

(* ----------------------- DebugCore: DebugSpec ------------------------- *)

\* debug/core.py lines 38-44: the keys of self._profiler_registry
ProfilerRegistry == {"time", "memory", "cpu", "scalene", "none"}

\* mode arguments callers pass: a registered mode of each kind of class (the
\* classes of "memory" and "scalene" start and stop as the one of "cpu"
\* does), and a mode that is not registered
ModeInputs == {"time", "cpu", "none", "gpu"}

\* profiler_class(): Profiler.__init__ (debug/profilers.py lines 17-21), made
\* by start_profiler ("core") or by profile_context ("context")
NewProfiler(mode, owner) ==
    [mode |-> mode, owner |-> owner, is_running |-> FALSE]

\* how start() of the class registered for mode can end (debug/profilers.py):
\* NullProfiler.start sets is_running (lines 70-72); TimeProfiler.start
\* sets it, prints a warning when pyinstrument is missing, or lets another
\* exception of pyinstrument out (lines 98-106); the other classes set it,
\* print a warning when Popen fails, or raise from mkdir (lines 148-175,
\* 216-243, 284-314)
StartOutcomes(mode) ==
    IF mode = "none" THEN {"running"}
    ELSE {"running", "not_running", "raises"}

\* profiler.start() ending as outcome says
Start(p, outcome) ==
    [p EXCEPT !.is_running = (outcome = "running")]

\* how stop() of profiler p can end: TimeProfiler.stop returns at once when
\* not running, otherwise stops pyinstrument and writes the report, either
\* of which can raise, before is_running is reset (lines 108-126); the other
\* classes catch what their stop raises (lines 177-194, 245-262, 316-333)
StopOutcomes(p) ==
    IF p.mode = "time" /\ p.is_running THEN {"stopped", "raises"}
    ELSE {"stopped"}

\* profiler.stop() ending as outcome says
Stop(p, outcome) ==
    [p EXCEPT !.is_running = IF outcome = "raises" THEN @ ELSE FALSE]

\* the profiler that was active left as it is
StopActiveSkipped(ps, a, outcome) == ps

\* core.py lines 126-127: if self.active_profiler:
\* self.active_profiler.stop()
StopActive(ps, a, outcome) ==
    IF a = NoProfiler THEN ps ELSE [ps EXCEPT ![a] = Stop(@, outcome)]

\* DebugCore.start_profiler(mode), core.py lines 112-140
start_profiler(t) ==
    /\ \E mode \in ModeInputs :
        LET c == [NoCall EXCEPT !.op = "start_profiler", !.mode = mode]
            stops == IF active_profiler = NoProfiler THEN {"stopped"}
                     ELSE StopOutcomes(profilers[active_profiler])
        IN  /\ Enter(t, c)
            /\ call' = [call EXCEPT ![t] = c]
            /\ IF mode \notin ProfilerRegistry
               THEN /\ result' = [result EXCEPT ![t].status = "returned",
                                                 ![t].flag = FALSE,
                                                 ![t].was_active = active_profiler]
                    /\ UNCHANGED debug
               ELSE \E stopped \in stops :
                    IF stopped = "raises"
                    THEN /\ profilers' = StopActive(profilers, active_profiler,
                                                    stopped)
                         /\ result' = [result EXCEPT
                                ![t].status = "raised",
                                ![t].cause = "stop",
                                ![t].was_active = active_profiler]
                         /\ UNCHANGED active_profiler
                    ELSE \E started \in StartOutcomes(mode) :
                         LET new == Len(profilers) + 1
                         IN  /\ profilers' =
                                   Append(StopActive(profilers, active_profiler,
                                                     stopped),
                                          Start(NewProfiler(mode, "core"),
                                                started))
                             /\ active_profiler' =
                                   IF started = "raises" THEN NoProfiler ELSE new
                             /\ result' = [result EXCEPT
                                    ![t].status = "returned",
                                    ![t].flag = (started # "raises"),
                                    ![t].profiler = new,
                                    ![t].was_active = active_profiler]
    /\ pc' = [pc EXCEPT ![t] = "done"]
    /\ UNCHANGED <<executors, lock, pool, queue, tasks, frame, hist, lastGot,
                   interp, future>>

\* DebugCore.stop_profiler(), core.py lines 142-158
stop_profiler(t) ==
    LET c == [NoCall EXCEPT !.op = "stop_profiler"]
    IN  /\ Enter(t, c)
        /\ call' = [call EXCEPT ![t] = c]
        /\ IF active_profiler = NoProfiler
           THEN /\ result' = [result EXCEPT ![t].status = "returned",
                                             ![t].flag = FALSE]
                /\ UNCHANGED debug
           ELSE \E stopped \in StopOutcomes(profilers[active_profiler]) :
                    /\ profilers' = [profilers EXCEPT
                            ![active_profiler] = Stop(@, stopped)]
                    /\ active_profiler' = IF stopped = "raises"
                                          THEN active_profiler ELSE NoProfiler
                    /\ result' = [result EXCEPT
                            ![t].status = "returned",
                            ![t].flag = (stopped # "raises"),
                            ![t].was_active = active_profiler]
        /\ pc' = [pc EXCEPT ![t] = "done"]
        /\ UNCHANGED <<executors, lock, pool, queue, tasks, frame, hist,
                       lastGot, interp, future>>

\* profiler.stop() called only when the body has not raised
StopsUnlessRaised(raised) == IF raised THEN 0 ELSE 1

\* core.py lines 203-209: finally: try: profiler.stop(): the number of
\* calls of profiler.stop() on leaving, whether the block raised or not
StopsOnExit(raised) == 1

\* core.py lines 203-209: the profiler of the context as the finally clause
\* leaves it; what stop raises is caught and logged
StopOnExit(p, outcome, raised) ==
    IF StopsOnExit(raised) = 1 THEN Stop(p, outcome) ELSE p

\* DebugCore.profile_context(mode) entered, core.py lines 160-202: an
\* unknown mode yields None; otherwise a new profiler is made, given its
\* output path and started, and the body runs, or start raises, the finally
\* clause stops the profiler and the exception leaves the with statement
profile_context(t) ==
    /\ \E mode \in ModeInputs :
        LET c == [NoCall EXCEPT !.op = "profile_context", !.mode = mode]
            new == Len(profilers) + 1
        IN  /\ Enter(t, c)
            /\ call' = [call EXCEPT ![t] = c]
            /\ IF mode \notin ProfilerRegistry
               THEN /\ pc' = [pc EXCEPT ![t] = "ctx_body"]
                    /\ result' = [result EXCEPT ![t].profiler = NoProfiler,
                                                 ![t].was_active = active_profiler]
                    /\ UNCHANGED profilers
               ELSE \E started \in StartOutcomes(mode) :
                    IF started = "raises"
                    THEN /\ profilers' =
                               Append(profilers,
                                      StopOnExit(Start(NewProfiler(mode, "context"),
                                                       started),
                                                 "stopped", TRUE))
                         /\ pc' = [pc EXCEPT ![t] = "done"]
                         /\ result' = [result EXCEPT
                                ![t].status = "raised",
                                ![t].cause = "start",
                                ![t].profiler = new,
                                ![t].was_active = active_profiler,
                                ![t].starts = 1,
                                ![t].stops = StopsOnExit(TRUE)]
                    ELSE /\ profilers' =
                               Append(profilers,
                                      Start(NewProfiler(mode, "context"), started))
                         /\ pc' = [pc EXCEPT ![t] = "ctx_body"]
                         /\ result' = [result EXCEPT
                                ![t].profiler = new,
                                ![t].was_active = active_profiler,
                                ![t].starts = 1]
    /\ UNCHANGED <<executors, lock, pool, queue, tasks, frame, hist, lastGot,
                   interp, active_profiler, future>>

\* the body of the with statement completes or raises and the generator is
\* resumed: core.py lines 203-209, or line 175 for an unknown mode
ProfileContextExit(t) ==
    /\ Observed
    /\ pc[t] = "ctx_body"
    /\ \E raised \in BOOLEAN :
        LET p == result[t].profiler
        IN  /\ IF p = NoProfiler THEN UNCHANGED profilers
               ELSE \E stopped \in StopOutcomes(profilers[p]) :
                       profilers' = [profilers EXCEPT
                                        ![p] = StopOnExit(@, stopped, raised)]
            /\ result' = [result EXCEPT
                    ![t].status = IF raised THEN "raised" ELSE "returned",
                    ![t].cause = IF raised THEN "body" ELSE "none",
                    ![t].stops = IF p = NoProfiler THEN 0
                                 ELSE @ + StopsOnExit(raised)]
    /\ pc' = [pc EXCEPT ![t] = "done"]
    /\ UNCHANGED <<executors, lock, pool, queue, tasks, ncalls, call, frame,
                   hist, lastGot, interp, active_profiler, future>>

DebugNext ==
    \/ \E t \in Threads : Leave(t)
    \/ \E t \in Threads : start_profiler(t)
    \/ \E t \in Threads : stop_profiler(t)
    \/ \E t \in Threads : profile_context(t)
    \/ \E t \in Threads : ProfileContextExit(t)

DebugSpec == Init /\ [][DebugNext]_vars

(* ------------------- execute_with_timeout: TimeoutSpec ------------------- *)

\* a func that does not return, as threading.Event().wait
Blocking == "wait_forever"

\* func arguments of execute_with_timeout
TimeoutFuncs == Funcs \cup {Blocking}

\* args of execute_with_timeout: the one item func is called on
TimeoutArgs == {0, 1}

\* future.cancel(): a work item no worker has started is cancelled, one
\* that runs or has finished stays as it is
Cancel(f) == IF f.state = "pending" THEN [f EXCEPT !.state = "cancelled"] ELSE f

\* lines 178 and 184: leaving `with ThreadPoolExecutor(...) as executor`
\* calls executor.shutdown(wait=True), which joins the worker thread: it
\* returns once the worker is not inside func
WorkerJoined(f) == f.state # "running"

\* execute_with_timeout(func, args, timeout=t), lines 175-179: a private
\* executor with one worker is created and func submitted to it; timeout
\* is a number, so the deadline of future.result can always pass
execute_with_timeout(t) ==
    /\ \E func \in TimeoutFuncs, arg \in TimeoutArgs :
        LET c == [NoCall EXCEPT !.op = "execute_with_timeout", !.func = func,
                                !.timed = TRUE]
        IN  /\ Enter(t, c)
            /\ call' = [call EXCEPT ![t] = c]
            /\ future' = [future EXCEPT ![t] = [func |-> func, arg |-> arg,
                                                 state |-> "pending"]]
    /\ pc' = [pc EXCEPT ![t] = "ewt_result"]
    /\ UNCHANGED <<executors, lock, pool, queue, tasks, frame, result, hist,
                   lastGot, interp, debug>>

\* the worker of the private executor takes the work item and calls func; a
\* cancelled item is dropped
TimeoutWorkerStart(t) ==
    /\ Observed
    /\ future[t].state = "pending"
    /\ future' = [future EXCEPT ![t].state = "running"]
    /\ UNCHANGED <<executors, lock, pool, queue, tasks, ncalls, pc, call,
                   frame, result, hist, lastGot, interp, debug>>

\* func returns or raises in the worker and the future is set
TimeoutWorkerFinish(t) ==
    /\ Observed
    /\ future[t].state = "running"
    /\ future[t].func # Blocking
    /\ future' = [future EXCEPT ![t].state =
                    IF Raises(future[t].func, future[t].arg) THEN "err"
                    ELSE "ok"]
    /\ UNCHANGED <<executors, lock, pool, queue, tasks, ncalls, pc, call,
                   frame, result, hist, lastGot, interp, debug>>

\* line 181: future.result(timeout=timeout) hands back what func returned
\* or raises what func raised; the with block is left
TimeoutResult(t) ==
    /\ Observed
    /\ pc[t] = "ewt_result"
    /\ future[t].state \in {"ok", "err"}
    /\ result' = [result EXCEPT
            ![t].status = IF future[t].state = "ok" THEN "returned"
                          ELSE "raised",
            ![t].cause = IF future[t].state = "ok" THEN "none" ELSE "func",
            ![t].value = IF future[t].state = "ok"
                         THEN <<Apply(future[t].func, future[t].arg)>>
                         ELSE <<>>]
    /\ pc' = [pc EXCEPT ![t] = "ewt_exit"]
    /\ UNCHANGED <<executors, lock, pool, queue, tasks, ncalls, call, frame,
                   hist, lastGot, interp, debug, future>>

\* lines 182-184: the deadline passes with the future not done;
\* future.cancel() is called and TimeoutError raised, which leaves the
\* with block
TimeoutExpired(t) ==
    /\ Observed
    /\ pc[t] = "ewt_result"
    /\ DeadlinePassed(t)
    /\ future[t].state \in {"pending", "running"}
    /\ future' = [future EXCEPT ![t] = Cancel(@)]
    /\ result' = [result EXCEPT ![t].status = "TimeoutError",
                                ![t].cause = "timeout"]
    /\ pc' = [pc EXCEPT ![t] = "ewt_exit"]
    /\ UNCHANGED <<executors, lock, pool, queue, tasks, ncalls, call, frame,
                   hist, lastGot, interp, debug>>

\* ThreadPoolExecutor.__exit__ returns and the value or the exception
\* reaches the caller of execute_with_timeout
TimeoutExit(t) ==
    /\ Observed
    /\ pc[t] = "ewt_exit"
    /\ WorkerJoined(future[t])
    /\ pc' = [pc EXCEPT ![t] = "done"]
    /\ UNCHANGED <<executors, lock, pool, queue, tasks, ncalls, call, frame,
                   result, hist, lastGot, interp, debug, future>>

TimeoutNext ==
    \/ \E t \in Threads : Leave(t)
    \/ \E t \in Threads : execute_with_timeout(t)
    \/ \E t \in Threads : TimeoutWorkerStart(t)
    \/ \E t \in Threads : TimeoutWorkerFinish(t)
    \/ \E t \in Threads : TimeoutResult(t)
    \/ \E t \in Threads : TimeoutExpired(t)
    \/ \E t \in Threads : TimeoutExit(t)

\* callers and workers keep running, every func but the blocking one ends,
\* and time passes: a deadline that is set passes unless the result is
\* there before
TimeoutFairness ==
    /\ WF_vars(\E t \in Threads : Leave(t))
    /\ WF_vars(\E t \in Threads : TimeoutWorkerStart(t))
    /\ WF_vars(\E t \in Threads : TimeoutWorkerFinish(t))
    /\ WF_vars(\E t \in Threads : TimeoutResult(t))
    /\ WF_vars(\E t \in Threads : TimeoutExpired(t))
    /\ WF_vars(\E t \in Threads : TimeoutExit(t))

TimeoutSpec == Init /\ [][TimeoutNext]_vars /\ TimeoutFairness

(* --------------------- package import and exit: ExitSpec -------------- *)

\* __init__.py line 40: from .orchestration.python_optimizer import ..., the
\* module body registers the callback (python_optimizer.py line 18)
ImportPythonOptimizer ==
    /\ stage = "import_python_optimizer"
    /\ atexit' = Register(atexit, "shutdown_executors")
    /\ stage' = "import_github_provisioner"
    /\ UNCHANGED <<executors, lock, pool, queue, tasks, ncalls, pc, call,
                   frame, result, hist, lastGot, debug, future>>

\* __init__.py line 41: from .orchestration.github_provisioner import ..., the
\* module body registers the callback (github_provisioner.py line 16)
ImportGithubProvisioner ==
    /\ stage = "import_github_provisioner"
    /\ atexit' = Register(atexit, "shutdown_executors")
    /\ stage' = "register_shutdown_hook"
    /\ UNCHANGED <<executors, lock, pool, queue, tasks, ncalls, pc, call,
                   frame, result, hist, lastGot, debug, future>>

\* __init__.py line 46: atexit.register(shutdown_executors); the package is
\* imported and its callers run
RegisterShutdownHook ==
    /\ stage = "register_shutdown_hook"
    /\ atexit' = Register(atexit, "shutdown_executors")
    /\ stage' = "running"
    /\ UNCHANGED <<executors, lock, pool, queue, tasks, ncalls, pc, call,
                   frame, result, hist, lastGot, debug, future>>

\* the main thread has ended and the other threads are joined: the
\* interpreter starts to run its exit callbacks
ProcessExit ==
    /\ stage = "running"
    /\ \A t \in Threads : pc[t] = "idle"
    /\ stage' = "exiting"
    /\ UNCHANGED <<executors, lock, pool, queue, tasks, ncalls, pc, call,
                   frame, result, hist, lastGot, atexit, debug, future>>

\* the interpreter calls the callback registered last and drops it: the main
\* thread t enters shutdown_executors (lines 188-189)
RunExitFunc(t) ==
    /\ stage = "exiting"
    /\ atexit # <<>>
    /\ pc[t] = "idle"
    /\ LockFree
    /\ atexit' = SubSeq(atexit, 1, Len(atexit) - 1)
    /\ lock' = t
    /\ call' = [call EXCEPT ![t] = [NoCall EXCEPT !.op = atexit[Len(atexit)]]]
    /\ pc' = [pc EXCEPT ![t] = "se_loop"]
    /\ UNCHANGED <<executors, pool, queue, tasks, ncalls, frame, result, hist,
                   lastGot, stage, debug, future>>

\* every callback has run: the process is gone
Exited ==
    /\ stage = "exiting"
    /\ atexit = <<>>
    /\ \A t \in Threads : pc[t] = "idle"
    /\ stage' = "exited"
    /\ UNCHANGED <<executors, lock, pool, queue, tasks, ncalls, pc, call,
                   frame, result, hist, lastGot, atexit, debug, future>>

\* the interpreter starts: nothing is imported, no callback registered
ExitInit ==
    /\ atexit = <<>>
    /\ stage = "import_python_optimizer"
    /\ active_profiler = NoProfiler
    /\ profilers = <<>>
    /\ future = [t \in Threads |-> NoFuture]
    /\ executors = [n \in Names |-> NoHandle]
    /\ lock = NoThread
    /\ pool = <<>>
    /\ queue = <<>>
    /\ tasks = <<>>
    /\ ncalls = 0
    /\ pc = [t \in Threads |-> "idle"]
    /\ call = [t \in Threads |-> NoCall]
    /\ frame = [t \in Mappers |-> NoFrame]
    /\ result = [t \in Threads |-> NoResult]
    /\ hist = [t \in Mappers |-> NoHist]
    /\ lastGot = [n \in Names |-> NoGot]

ExitNext ==
    \/ ImportPythonOptimizer
    \/ ImportGithubProvisioner
    \/ RegisterShutdownHook
    \/ \E t \in Threads : Leave(t)
    \/ \E t \in Threads : get_executor(t)
    \/ \E t \in Threads : GECreate(t)
    \/ \E t \in Threads : shutdown_executors(t)
    \/ \E t \in Threads : SEFinish(t)
    \/ \E t \in Threads : executor_shutdown(t)
    \/ ProcessExit
    \/ \E t \in Mappers : RunExitFunc(t)
    \/ Exited

ExitSpec == ExitInit /\ [][ExitNext]_vars

(* ------------------------------- claims ------------------------------- *)

\* thread t has the outcome of a call of op in hand
Ended(t, op) == pc[t] = "done" /\ call[t].op = op

\* the values func returns on the listed items it does not raise on
RECURSIVE Values(_, _, _)
Values(func, n, listed) ==
    IF listed = <<>> THEN <<>>
    ELSE IF Raises(func, Items(n)[Head(listed)])
         THEN Values(func, n, Tail(listed))
         ELSE <<Apply(func, Items(n)[Head(listed)])>>
              \o Values(func, n, Tail(listed))

\* the items of range(n), by position, func raises on
Failing(func, n) == {i \in 1..n : Raises(func, Items(n)[i])}

\* C1: in every reachable state at most one handle created by the registry
\* and not yet shut down exists per name, and a live handle get_executor
\* returns to one thread is the live handle of that name it returned to the
\* parallel_map call of another.
OneLiveHandlePerName ==
    /\ \A n \in Names :
        Cardinality({h \in Handles : pool[h].name = n /\ ~pool[h].shutdown}) <= 1
    /\ \A t1 \in Threads, t2 \in Mappers :
        /\ Ended(t1, "get_executor") /\ result[t1].status = "returned"
        /\ Live(result[t1].handle) /\ Live(frame[t2].executor)
        /\ pool[frame[t2].executor].name = call[t1].name
        => result[t1].handle = frame[t2].executor

\* the get_executor call of parallel_map in one thread and a get_executor
\* call of another thread, made for the same unregistered name, have the same
\* live handle, and one pool was created
RacedForOneName ==
    /\ Ended(2, "get_executor") /\ result[2].status = "returned"
    /\ Live(result[2].handle)
    /\ pc[1] = "pm_submit" /\ frame[1].nsub = 0
    /\ frame[1].executor = result[2].handle
    /\ Len(pool) = 1
    /\ ncalls = 3

\* C2: a get_executor call for a name that follows another get_executor
\* call for that name, with no shutdown in between, returns the handle the
\* earlier call returned, and the handle has the worker count it had then,
\* whatever workers the later call asks for.
SequentialCallsReuseHandle ==
    \A t \in Threads :
        /\ Ended(t, "get_executor")
        /\ result[t].status = "returned"
        /\ result[t].prev.h # NoHandle
        => /\ result[t].handle = result[t].prev.h
           /\ pool[result[t].handle].workers = result[t].prev.workers

\* the later call asked for a worker count the handle does not have
ReusedWithOtherWorkers ==
    \E t \in Threads :
        /\ Ended(t, "get_executor")
        /\ result[t].status = "returned"
        /\ result[t].prev.h # NoHandle
        /\ call[t].workers > 0
        /\ call[t].workers # pool[result[t].handle].workers

\* C3: get_executor with a kind that is neither "thread" nor "process"
\* raises ConcurrencyError for every name and every registry state.
InvalidKindAlwaysRaises ==
    \A t \in Threads :
        /\ Ended(t, "get_executor")
        /\ Lower(call[t].kind) \notin {"thread", "process"}
        => /\ result[t].status = "ConcurrencyError"
           /\ result[t].cause = "invalid_kind"

\* C4: func raising on items makes parallel_map neither raise nor abort: a
\* call without timeout on an executor that is not shut down returns, and
\* what a call returns is one result per item func did not raise on, with
\* one recorded error per item it raised on.
ItemFailuresDoNotAbort ==
    \A t \in Mappers :
        Ended(t, "parallel_map") /\ call[t].n > 0 =>
            /\ (/\ result[t].handle # NoHandle
                /\ ~pool[result[t].handle].shutdown
                /\ ~call[t].timed) => result[t].status = "returned"
            /\ result[t].status = "returned" =>
                /\ Len(frame[t].results) + Len(frame[t].errors) = call[t].n
                /\ Len(result[t].value) =
                        call[t].n - Cardinality(Failing(call[t].func, call[t].n))
                /\ Range(result[t].value) =
                        {Apply(call[t].func, Items(call[t].n)[i]) :
                            i \in (1..call[t].n) \ Failing(call[t].func, call[t].n)}
                /\ Range(frame[t].errors) =
                        {Items(call[t].n)[i] : i \in Failing(call[t].func, call[t].n)}

\* func raised on one item of two and parallel_map returned the other result
ReturnedDespiteFailure ==
    \E t \in Mappers :
        /\ Ended(t, "parallel_map")
        /\ result[t].status = "returned"
        /\ call[t].n = 2
        /\ Len(frame[t].errors) = 1
        /\ Len(result[t].value) = 1

\* C5: parallel_map on a thread pool returns its results in the order of
\* the input items: result[i] = func(items[i]).
ResultsInInputOrder ==
    \A t \in Mappers :
        /\ Ended(t, "parallel_map")
        /\ result[t].status = "returned"
        /\ call[t].n > 0
        /\ call[t].func = "square"
        /\ pool[result[t].handle].kind = "thread"
        => result[t].value =
                [i \in 1..call[t].n |-> Apply(call[t].func, Items(call[t].n)[i])]

FollowsTimeout(t) ==
    /\ Ended(t, "parallel_map")
    /\ call[t].n > 0
    /\ ~call[t].timed
    /\ hist[t].after # NoHandle
    /\ pool[hist[t].after].name = call[t].name
    /\ ~pool[hist[t].after].shutdown

\* C8: the step on which parallel_map fails with a timeout changes neither
\* the registry nor any executor, and a follow-up parallel_map call without
\* timeout by the same thread on that name, the handle not being shut down
\* by anyone, runs on the same handle and returns all of its results.
PoolSurvivesTimeout ==
    /\ [][\A t \in Mappers :
            (\/ pc[t] = "pm_loop" /\ pc'[t] = "pm_handler"
             \/ pc[t] = "pm_handler" /\ pc'[t] = "done"
                    /\ result'[t].cause = "timeout")
            => /\ executors' = executors
               /\ \A h \in Handles : pool'[h].shutdown = pool[h].shutdown]_vars
    /\ [](\A t \in Mappers :
            FollowsTimeout(t) =>
                /\ result[t].handle = hist[t].after
                /\ result[t].status = "returned"
                /\ Len(result[t].value) =
                        call[t].n - Cardinality(Failing(call[t].func, call[t].n)))

\* a call of two items returned both results on the handle the previous
\* call of the thread had timed out on
FollowUpSucceeded ==
    \E t \in Mappers :
        /\ FollowsTimeout(t)
        /\ executors[call[t].name] = hist[t].after
        /\ result[t].status = "returned"
        /\ Len(result[t].value) = 2

\* C9, as claimed: the tasks of a timed out batch that had not started when
\* it timed out are cancelled and never run func.
QueuedAtTimeoutNeverRun ==
    \A id \in DOMAIN tasks :
        tasks[id].atTimeout = "queued" => tasks[id].state # "running"

\* C9, amended: when parallel_map times out it only stops waiting: the tasks
\* of the batch that were running go on running, and the tasks that had not
\* started are not cancelled, they stay in the queue of the executor until a
\* worker runs them.
AbandonedTasksStayWithExecutor ==
    \A id \in DOMAIN tasks :
        tasks[id].atTimeout # "none" =>
            /\ tasks[id].state \in {"queued", "running"}
            /\ tasks[id].atTimeout = "running" => tasks[id].state = "running"
            /\ tasks[id].state = "queued" => id \in Range(queue[tasks[id].h])

\* after the call has timed out, one of its tasks that was running then
\* still runs and one that was queued then is run by a worker
AbandonedTasksRun ==
    /\ \E id \in DOMAIN tasks :
        /\ pc[id[1]] = "idle"
        /\ tasks[id].atTimeout = "queued"
        /\ tasks[id].state = "running"

\* C10: the step on which shutdown_executors returns leaves the registry
\* empty and every executor that was registered shut down, whether or not
\* its tasks have finished.
ShutdownClearsRegistry ==
    [][\A t \in Threads :
        (pc[t] = "se_loop" /\ pc'[t] = "done") =>
            /\ \A n \in Names : executors'[n] = NoHandle
            /\ \A n \in Names :
                executors[n] # NoHandle => pool'[executors[n]].shutdown]_vars

\* shutdown_executors has returned while a task of an executor it shut down
\* is still running
ShutDownWhileRunning ==
    \E t \in Threads, id \in DOMAIN tasks :
        /\ Ended(t, "shutdown_executors")
        /\ tasks[id].state = "running"
        /\ pool[tasks[id].h].shutdown
        /\ \A n \in Names : executors[n] = NoHandle

\* C11: a get_executor call for a name that returns after shutdown_executors
\* took the handle of that name out of the registry, no other call for the
\* name having returned in between, returns a handle this call created, which
\* is not the handle registered before the shutdown, is registered under the
\* name and is not shut down when the call returns; the earlier handle is
\* shut down.
NewHandleAfterShutdown ==
    \A t \in Threads :
        /\ Ended(t, "get_executor")
        /\ result[t].status = "returned"
        /\ result[t].prev.before # NoHandle
        => /\ result[t].handle # result[t].prev.before
           /\ result[t].handle > result[t].prev.before
           /\ result[t].created
           /\ Live(result[t].handle)
           /\ executors[call[t].name] = result[t].handle
           /\ pool[result[t].prev.before].shutdown

\* get_executor returned a second handle for the name, shutdown_executors
\* having shut the first down while a task of it was still running
SecondHandleAfterShutdown ==
    \E t \in Threads :
        /\ Ended(t, "get_executor")
        /\ result[t].status = "returned"
        /\ result[t].prev.before = 1
        /\ result[t].handle = 2
        /\ Running(1) # {}

\* C12: every handle get_executor returns is not shut down when the call
\* returns, and a call with a valid kind that finds a shut down handle
\* registered under the name returns a handle it created and registered in
\* its place, the stale one left shut down.
StaleHandleReplaced ==
    \A t \in Threads :
        /\ Ended(t, "get_executor")
        /\ result[t].status = "returned"
        => /\ ~pool[result[t].handle].shutdown
           /\ (/\ result[t].found # NoHandle
               /\ pool[result[t].found].shutdown
               /\ Lower(call[t].kind) \in {"thread", "process"})
              => /\ result[t].handle # result[t].found
                 /\ result[t].created
                 /\ executors[call[t].name] = result[t].handle

\* C13: whichever calls of executor.shutdown raise, the step on which
\* shutdown_executors ends returns to its caller, leaves the registry empty
\* and the lock free, and leaves every registered executor whose shutdown
\* did not raise shut down.
ShutdownFailureTolerated ==
    [][\A t \in Threads :
        (pc[t] = "se_loop" /\ pc'[t] = "done") =>
            /\ result'[t].status = "returned"
            /\ lock' = NoThread
            /\ \A n \in Names : executors'[n] = NoHandle
            /\ \A n \in Names :
                (executors[n] # NoHandle /\ n \notin result'[t].failed)
                    => pool'[executors[n]].shutdown]_vars

\* the shutdown of the executor visited first raised and left it running,
\* the executor visited after it is shut down and the registry is empty
ShutDownAfterFailure ==
    \E t \in Threads :
        /\ Ended(t, "shutdown_executors")
        /\ result[t].status = "returned"
        /\ result[t].visited = <<"a", "b">>
        /\ result[t].failed = {"a"}
        /\ ~pool[1].shutdown /\ pool[1].name = "a"
        /\ pool[2].shutdown /\ pool[2].name = "b"
        /\ \A n \in Names : executors[n] = NoHandle

\* C14: a shutdown_executors call that finds the registry empty, no pool
\* having been created or an earlier shutdown_executors having cleared it,
\* returns without raising and changes neither the registry nor any
\* executor, queue or task.
ShutdownIdempotent ==
    [][\A t \in Threads :
        (/\ pc[t] = "se_loop" /\ pc'[t] = "done"
         /\ \A n \in Names : executors[n] = NoHandle) =>
            /\ result'[t].status = "returned"
            /\ result'[t].count = 0
            /\ lock' = NoThread
            /\ UNCHANGED <<executors, pool, queue, tasks, lastGot>>]_vars

\* a third shutdown_executors call in a row has returned, the first having
\* cleared two executors out of the registry, one of them still running
\* because its shutdown raised
ShutdownRepeated ==
    \E t \in Threads :
        /\ Ended(t, "shutdown_executors")
        /\ result[t].status = "returned"
        /\ result[t].count = 0
        /\ ncalls = 3
        /\ Len(pool) = 2
        /\ \E h \in Handles : ~pool[h].shutdown
        /\ \A n \in Names : executors[n] = NoHandle

\* C15: the step on which parallel_map is called with an empty items list
\* ends the call: it returns the empty list, takes no lock, and leaves the
\* registry, every executor, queue and task and the record of the handles
\* get_executor returned unchanged, whatever name, kind and workers it is
\* given.
EmptyInputLeavesRegistry ==
    [][\A t \in Mappers :
        (pc[t] = "idle" /\ call'[t].op = "parallel_map" /\ call'[t].n = 0) =>
            /\ pc'[t] = "done"
            /\ result'[t].status = "returned"
            /\ result'[t].value = <<>>
            /\ result'[t].handle = NoHandle
            /\ UNCHANGED <<executors, lock, pool, queue, tasks, lastGot>>]_vars

\* parallel_map returned for an empty list while the executor registered
\* under its name was shut down and still registered
EmptyInputReturned ==
    \E t \in Mappers :
        /\ Ended(t, "parallel_map")
        /\ call[t].n = 0
        /\ result[t].status = "returned"
        /\ result[t].value = <<>>
        /\ executors[call[t].name] # NoHandle
        /\ pool[executors[call[t].name]].shutdown

\* C16: no step parallel_map takes after get_executor has returned to it
\* (submitting, collecting, returning, failing on the timeout or on a refused
\* submit) changes the registry or shuts an executor down: the handle it
\* uses is registered and live after the step if it was before.
MapLeavesExecutorRunning ==
    [][\A t \in Mappers :
        (/\ pc[t] \in {"pm_submit", "pm_collect", "pm_loop", "pm_handler"}
         /\ pc'[t] # pc[t] \/ frame'[t] # frame[t]) =>
            /\ executors' = executors
            /\ \A h \in Handles : pool'[h].shutdown = pool[h].shutdown
            /\ Len(pool') = Len(pool)]_vars

\* parallel_map returned after func had raised on an item, and the handle it
\* submitted to is registered under its name and not shut down
ExecutorKeptAfterReturn ==
    \E t \in Mappers :
        /\ Ended(t, "parallel_map")
        /\ result[t].status = "returned"
        /\ frame[t].errors # <<>>
        /\ executors[call[t].name] = result[t].handle
        /\ Live(result[t].handle)

\* C17: a thread holds the lock only between the lookup and the return of
\* get_executor or inside shutdown_executors, where its next step is always
\* possible and releases it; a thread that is submitting, collecting or
\* waiting in parallel_map does not hold it, so that with the lock free
\* every other thread that has a call to make can enter get_executor and
\* shutdown_executors.
LockOnlyForBookkeeping ==
    /\ \A t \in Threads :
        lock = t =>
            /\ pc[t] \in {"ge_create", "se_loop"}
            /\ Observed => ENABLED (GECreate(t) \/ SEFinish(t))
    /\ \A t \in Mappers :
        pc[t] \in {"pm_submit", "pm_collect", "pm_loop", "pm_handler"} =>
            /\ lock # t
            /\ \A t2 \in Threads \ {t} :
                (lock = NoThread /\ CanEnter(t2, "get_executor")) =>
                    /\ ENABLED get_executor(t2)
                    /\ ENABLED shutdown_executors(t2)

\* while one thread waits in parallel_map for its tasks, another is inside
\* shutdown_executors holding the lock
LockTakenDuringMap ==
    /\ pc[1] = "pm_loop"
    /\ frame[1].pending # {}
    /\ lock = 2
    /\ pc[2] = "se_loop"

\* C18, as claimed: the error parallel_map fails with on the timeout states
\* the number of pending tasks, and that number is the number of tasks of the
\* batch that had not completed when the timeout fired.
TimeoutErrorReportsPending ==
    \A t \in Mappers :
        (Ended(t, "parallel_map") /\ result[t].cause = "timeout") =>
            /\ Len(result[t].message) = 2
            /\ result[t].message[2] = frame[t].unfinished

\* C18, amended: the ConcurrencyError raised on the timeout states the
\* timeout only; the number of pending tasks is written to the error log,
\* and it is the number of futures of the batch not done when the handler
\* counts them, which is at most the number not done when the timeout fired
\* and at most the number as_completed had not yielded.
TimeoutLogsPending ==
    \A t \in Mappers :
        (Ended(t, "parallel_map") /\ result[t].cause = "timeout") =>
            /\ result[t].message = <<"timed out">>
            /\ result[t].logged = <<"timed out", result[t].pending_count>>
            /\ result[t].pending_count = Cardinality(Batch(t))
            /\ result[t].pending_count <= frame[t].unfinished
            /\ frame[t].unfinished <= Cardinality(frame[t].pending)

\* a task finished between the timeout and the count of the handler: two
\* tasks had not completed when the timeout fired and one is logged as
\* pending
CountedAfterTimeout ==
    \E t \in Mappers :
        /\ Ended(t, "parallel_map")
        /\ result[t].cause = "timeout"
        /\ frame[t].unfinished = 2
        /\ result[t].pending_count = 1

\* C19: with os.cpu_count() reporting c >= 1 cores, get_optimal_workers
\* returns max(1, c - 1) for the task type "cpu", 2 * c for "io" and c for
\* every other task type, the task type being compared in lower case, and
\* never less than 1.
WorkersFollowCores ==
    \A t \in Threads :
        (Ended(t, "get_optimal_workers") /\ result[t].cpu_count >= 1) =>
            LET c == result[t].cpu_count
                w == result[t].workers
            IN  /\ result[t].status = "returned"
                /\ call[t].task_type \in {"cpu", "CPU"} =>
                        w = IF c - 1 >= 1 THEN c - 1 ELSE 1
                /\ call[t].task_type \in {"io", "IO"} => w = c + c
                /\ call[t].task_type \notin {"cpu", "CPU", "io", "IO"} => w = c
                /\ w >= 1

\* on a single core the "cpu" sizing is held at 1 worker
OneWorkerOnOneCore ==
    \E t \in Threads :
        /\ Ended(t, "get_optimal_workers")
        /\ call[t].task_type = "cpu"
        /\ result[t].cpu_count = 1
        /\ result[t].workers = 1

\* C20, as claimed: when os.cpu_count() returns None or raises,
\* get_optimal_workers returns 4 for every task type.
FallbackIsFour ==
    \A t \in Threads :
        (/\ Ended(t, "get_optimal_workers")
         /\ result[t].cpu_count \in {NoCores, CpuCountRaises}) =>
            result[t].workers = 4

\* C20, amended: when os.cpu_count() raises, get_optimal_workers returns 4
\* for every task type; when it returns None, the core count is taken to be
\* 4 and the result is sized from it: 3 for "cpu", 8 for "io", 4 otherwise.
FallbackIsFourCores ==
    \A t \in Threads :
        Ended(t, "get_optimal_workers") =>
            /\ result[t].cpu_count = CpuCountRaises => result[t].workers = 4
            /\ result[t].cpu_count = NoCores =>
                    result[t].workers =
                        CASE call[t].task_type \in {"cpu", "CPU"} -> 3
                          [] call[t].task_type \in {"io", "IO"} -> 8
                          [] OTHER -> 4

\* no core count reported and 8 workers returned for the "io" task type
EightWorkersWithoutCoreCount ==
    \E t \in Threads :
        /\ Ended(t, "get_optimal_workers")
        /\ call[t].task_type = "io"
        /\ result[t].cpu_count = NoCores
        /\ result[t].workers = 8

HookRegisteredOnce ==
    /\ stage = "running" =>
            Cardinality({i \in 1..Len(atexit) :
                            atexit[i] = "shutdown_executors"}) = 1
    /\ stage = "exited" =>
            /\ \A n \in Names : executors[n] = NoHandle
            /\ \A h \in Handles : pool[h].shutdown

\* C23: a parallel_map call on a process pool with chunk_size = k that
\* returns has dispatched its n items as ceil(n / k) tasks, and every item
\* was processed once: it has one result or one recorded error per item.
ChunksDispatched ==
    \A t \in Mappers :
        (/\ Ended(t, "parallel_map")
         /\ result[t].status = "returned"
         /\ call[t].n > 0
         /\ pool[frame[t].executor].kind = "process") =>
            /\ frame[t].nsub =
                    (call[t].n + call[t].chunk_size - 1) \div call[t].chunk_size
            /\ Len(frame[t].results) + Len(frame[t].errors) = call[t].n

\* the profilers start_profiler started that are running
RunningProfilers ==
    {i \in DOMAIN profilers :
        profilers[i].owner = "core" /\ profilers[i].is_running}

\* C24, as claimed: start_profiler(mode) for a registered mode returns True
\* with a profiler of that mode active, the profiler active before stopped,
\* and at most one profiler started by DebugCore is running.
StartProfilerReturnsTrue ==
    /\ Cardinality(RunningProfilers) <= 1
    /\ \A t \in Threads :
        (Ended(t, "start_profiler") /\ call[t].mode \in ProfilerRegistry) =>
            /\ result[t].status = "returned"
            /\ result[t].flag
            /\ active_profiler # NoProfiler
            /\ profilers[active_profiler].mode = call[t].mode
            /\ result[t].was_active # NoProfiler =>
                    ~profilers[result[t].was_active].is_running

\* C24, amended: start_profiler(mode) for a registered mode first calls
\* stop() of the active profiler; if that raises, the exception leaves
\* start_profiler and the active profiler stays as it was, running.
\* Otherwise the earlier profiler is not running any more, a profiler of
\* that mode is made and started, and start_profiler returns True with it
\* active, or False with no profiler active when its start() raised. At
\* most one profiler started by start_profiler is running at any time.
StartProfilerOutcome ==
    /\ Cardinality(RunningProfilers) <= 1
    /\ \A t \in Threads :
        (Ended(t, "start_profiler") /\ call[t].mode \in ProfilerRegistry) =>
            \/ /\ result[t].status = "raised"
               /\ result[t].was_active # NoProfiler
               /\ active_profiler = result[t].was_active
               /\ profilers[active_profiler].is_running
               /\ result[t].profiler = NoProfiler
            \/ /\ result[t].status = "returned"
               /\ result[t].was_active # NoProfiler =>
                       ~profilers[result[t].was_active].is_running
               /\ profilers[result[t].profiler].mode = call[t].mode
               /\ profilers[result[t].profiler].owner = "core"
               /\ result[t].profiler # result[t].was_active
               /\ IF result[t].flag
                  THEN active_profiler = result[t].profiler
                  ELSE /\ active_profiler = NoProfiler
                       /\ ~profilers[result[t].profiler].is_running

\* start_profiler stopped the running profiler and returned False, the
\* start of the new profiler having raised
StartFailedAfterStop ==
    \E t \in Threads :
        /\ Ended(t, "start_profiler")
        /\ call[t].mode \in ProfilerRegistry
        /\ result[t].status = "returned"
        /\ ~result[t].flag
        /\ result[t].was_active # NoProfiler
        /\ RunningProfilers = {}

SubmitsOnlyToLiveHandle ==
    \A t \in Mappers :
        (Ended(t, "parallel_map") /\ executors[call[t].name] = NoHandle) =>
            result[t].status \in {"returned", "ConcurrencyError"}

\* C29: a get_executor call that raises for an invalid executor_type leaves
\* the registry as it was, shuts down no executor that was live, creates
\* none, and has released the lock when the error reaches the caller.
InvalidKindLeavesRegistry ==
    [][\A t \in Threads :
        (pc[t] = "ge_create" /\ pc'[t] = "done"
         /\ result'[t].cause = "invalid_kind") =>
            /\ executors' = executors
            /\ Len(pool') = Len(pool)
            /\ \A h \in DOMAIN pool : pool'[h].shutdown = pool[h].shutdown
            /\ queue' = queue
            /\ lock' = NoThread]_vars

\* get_executor raised for an invalid executor_type on a name that holds a
\* thread pool already shut down: the pool is still registered, the lock
\* is free
InvalidKindOverStaleHandle ==
    \E t \in Threads :
        /\ pc[t] = "done"
        /\ result[t].cause = "invalid_kind"
        /\ executors[call[t].name] # NoHandle
        /\ pool[executors[call[t].name]].shutdown
        /\ lock = NoThread

UntimedMapTerminates ==
    /\ [](\A t \in Mappers :
            (call[t].op = "parallel_map" /\ ~call[t].timed) =>
                /\ pc[t] # "pm_handler"
                /\ result[t].cause # "timeout")
    /\ [][\A t \in Mappers :
            (/\ call[t].op = "parallel_map"
             /\ ~call[t].timed
             /\ pc[t] \in {"pm_collect", "pm_loop"}
             /\ pc'[t] = "done") =>
                /\ result'[t].status = "returned"
                /\ Cardinality(Batch(t)) = call[t].n
                /\ \A id \in Batch(t) : tasks[id].state \in {"ok", "err"}]_vars
    /\ \A t \in Mappers :
            (call[t].op = "parallel_map" /\ ~call[t].timed) ~> pc[t] = "done"

\* parallel_map without a timeout returned the results of all its items
\* although shutdown_executors shut its executor down and cleared the
\* registry after the submits
ReturnedDespiteShutdown ==
    \E t \in Mappers :
        /\ Ended(t, "parallel_map")
        /\ ~call[t].timed
        /\ result[t].status = "returned"
        /\ Len(result[t].value) = MaxItems
        /\ pool[result[t].handle].shutdown
        /\ executors[call[t].name] = NoHandle

\* C27, as claimed: every execute_with_timeout call ends, by the result of
\* func or by TimeoutError once the timeout has passed, whether or not func
\* ever returns.
TimedCallReturnsControl ==
    \A t \in Threads :
        (call[t].op = "execute_with_timeout") ~> (pc[t] = "done")

====
